---- MODULE Spec2Model ----
(***************************************************************************)
(* A model of the file-backed document store of src/main.go: the Driver    *)
(* (root directory, guard mutex, table of per-collection mutexes), its     *)
(* constructor New and its operations Write, Read, ReadAll and Delete, run *)
(* by concurrent callers.                                                  *)
(* Every caller makes one call; a caller that starts after another has     *)
(* returned models sequential use of the store.                            *)
(***************************************************************************)
EXTENDS Naturals, Sequences, FiniteSets, TLC

\* ------------------------------------------------------------- bounds
\* Number of callers (goroutines) using one Driver.
NCallers == 3

\* Number of those callers that the specifications of concurrent Writes and
\* Deletes let call, in any interleaving.
NConcurrent == 2

Procs == 1 .. NCallers
Busy == {p \in Procs : p <= NConcurrent}

\* Collection names and resource ids the callers pass ("" is the empty
\* string, "./users" a second spelling of "users").
Colls == {"", "users", "products", "./users"}
Rids == {"", "a", "b", "c"}

NoProc == 0
NoLock == 0

\* ------------------------------------------------------- data structures
\* Values of type User handed to Write.  Age is a json.Number, that is a
\* string holding a number literal: "" is its zero value and "x" is not a
\* number literal at all.
Users == { [Name |-> "John Doe", Age |-> "23"],
           [Name |-> "Alice Smith", Age |-> ""],
           [Name |-> "Rakshit", Age |-> "x"] }

\* The state of a destination of type User before Read decodes into it.
ZeroUser == [Name |-> "", Age |-> ""]

Names == {u.Name : u \in Users}

\* A string as a JSON string literal.
Quote(s) == CASE s = "John Doe" -> "\"John Doe\""
              [] s = "Alice Smith" -> "\"Alice Smith\""
              [] s = "Rakshit" -> "\"Rakshit\""
              [] OTHER -> "\"\""

\* Whether a json.Number holds a valid JSON number literal.
isValidNumber(n) == n \in {"0", "23"}

\* The literal the encoder emits for a json.Number: the empty Number is
\* written as 0.
NumberLiteral(n) == IF n = "" THEN "0" ELSE n

\* json.MarshalIndent(v, "", "\t") succeeds exactly when every json.Number
\* of v is a number literal (after the empty Number became 0).
Encodable(v) == isValidNumber(NumberLiteral(v.Age))

\* The bytes json.MarshalIndent produces for an encodable User, as the
\* sequence of its tokens: one field per line, fields in declaration order.
MarshalIndent(v) ==
    << "{", "\"name\":", Quote(v.Name), "\"age\":", NumberLiteral(v.Age), "}" >>

\* The content of a file opened with O_TRUNC and not written yet.
EmptyBytes == << >>

\* Whether the bytes are a well-formed JSON object for a User.
WellFormed(b) ==
    /\ Len(b) = 6
    /\ b[1] = "{" /\ b[2] = "\"name\":" /\ b[4] = "\"age\":" /\ b[6] = "}"
    /\ \E s \in Names : Quote(s) = b[3]
    /\ isValidNumber(b[5])

\* A decoder that leaves the json.Number field of the destination alone.
UnmarshalNameOnly(b) ==
    [Name |-> CHOOSE s \in Names : Quote(s) = b[3], Age |-> ""]

\* json.Unmarshal(b, &v) into a User: the decoded value.  A json.Number
\* field keeps the literal as it stands in the text.
Unmarshal(b) ==
    [Name |-> CHOOSE s \in Names : Quote(s) = b[3], Age |-> b[5]]

\* ------------------------------------------------------------ the paths
\* filepath.Join cleans its result: a "." element of a name goes away.
Clean(c) == IF c = "./users" THEN "users" ELSE c

\* filepath.Join(d.dir, collection): the directory of a collection.  Join
\* drops empty elements, so the empty collection name is the root itself.
Root == "/"
DirOf(c) == IF c = "" THEN Root ELSE Clean(c)

\* A path that leaves the resource id out.
PathOfCollection(c, r) == << DirOf(c), "a" >>

\* filepath.Join(d.dir, collection, resource+".json"): the record file, as
\* the pair of its directory and of the resource id its name is made from.
PathOf(c, r) == << DirOf(c), r >>

Dirs == {DirOf(c) : c \in Colls}
Paths == Dirs \X Rids

\* What the file table holds for a path with no file.
NoFile == << "ENOENT" >>

\* The name of a record file inside its directory: resource + ".json".
FileName(r) == CASE r = "" -> ".json"
                 [] r = "a" -> "a.json"
                 [] r = "b" -> "b.json"
                 [] OTHER -> "c.json"

\* The rank of a directory entry's name in the order of os.ReadDir, which
\* returns the entries sorted by filename.
Rank(n) == CASE n = ".json" -> 1
             [] n = "a.json" -> 2
             [] n = "b.json" -> 3
             [] n = "c.json" -> 4
             [] n = "products" -> 5
             [] OTHER -> 6

\* ------------------------------------------------------------- the state
VARIABLES
    guard,    \* Driver.mutex: the caller holding it, or NoProc
    mutexes,  \* Driver.mutexes: collection name -> lock object, or NoLock
    locks,    \* the sync.Mutex objects created so far: locks[i] is the holder
    dirs,     \* the directories that exist under (and including) the root
    files,    \* path -> content of the file, or NoFile
    pc,       \* where each caller stands in its call
    call,     \* the call each caller makes: operation and arguments
    m,        \* the lock object getOrCreateMutex found or made for the caller
    err,      \* the error each call returned ("nil" for success)
    dest,     \* Read: the destination the record is decoded into
    todo,     \* ReadAll: the directory entries still to read
    records,  \* ReadAll: the payloads collected so far
    rootFile, \* whether a regular file stands at the root path
    db,       \* what New returned: the driver and the error, or NotBuilt
    order     \* history: the callers in the order they took a collection lock

store == << guard, mutexes, locks >>
disk == << dirs, files >>
local == << m, dest, todo, records >>
built == << rootFile, db >>
vars == << guard, mutexes, locks, dirs, files, pc, call, m, err, dest,
           todo, records, rootFile, db, order >>

NoCall == [op |-> "none", col |-> "", rid |-> "", val |-> ZeroUser]
Pending == "-"

\* New has not returned yet.
NotBuilt == [driver |-> FALSE, err |-> Pending]

\* The caller's part of one Driver: no call made yet.
NoCalls ==
    /\ pc = [p \in Procs |-> "idle"]
    /\ call = [p \in Procs |-> NoCall]
    /\ m = [p \in Procs |-> NoLock]
    /\ err = [p \in Procs |-> Pending]
    /\ dest = [p \in Procs |-> ZeroUser]
    /\ todo = [p \in Procs |-> << >>]
    /\ records = [p \in Procs |-> << >>]
    /\ order = << >>

\* New("./data") has returned: the root directory exists, the lock table is
\* empty and no caller has called yet.
Init ==
    /\ guard = NoProc
    /\ mutexes = [c \in Colls |-> NoLock]
    /\ locks = << >>
    /\ dirs = {Root}
    /\ files = [f \in Paths |-> NoFile]
    /\ rootFile = FALSE
    /\ db = [driver |-> TRUE, err |-> "nil"]
    /\ NoCalls

\* ------------------------------------------------------------------ New
\* The state New can be called in: at the root path stands a directory, a
\* regular file or nothing; there is no Driver and no caller of one yet.
InitNew ==
    /\ guard = NoProc
    /\ mutexes = [c \in Colls |-> NoLock]
    /\ locks = << >>
    /\ rootFile \in BOOLEAN
    /\ dirs \in {{}, {Root}}
    /\ ~(rootFile /\ Root \in dirs)
    /\ files = [f \in Paths |-> NoFile]
    /\ db = NotBuilt
    /\ NoCalls

\* New(dir): the root path is Root in whatever spelling New is given
\* (filepath.Clean).  os.Stat(dir) succeeds on whatever stands at the path,
\* directory or not, and New then returns the Driver and nil; on nothing
\* it fails and os.MkdirAll(dir, 0755) makes the directory.
New ==
    /\ db = NotBuilt
    /\ dirs' = IF Root \in dirs \/ rootFile THEN dirs ELSE dirs \cup {Root}
    /\ db' = [driver |-> TRUE, err |-> "nil"]
    /\ UNCHANGED << store, files, pc, call, err, local, rootFile, order >>

\* New(dir) on a path where nothing stands and os.MkdirAll fails: New
\* returns the Driver it made together with the error.
NewMkdirAllFails ==
    /\ db = NotBuilt
    /\ Root \notin dirs /\ ~rootFile
    /\ db' = [driver |-> TRUE, err |-> "IOError"]
    /\ UNCHANGED << store, disk, pc, call, err, local, rootFile, order >>

\* New has returned a Driver without an error: main goes on to use it.
Built == db.driver /\ db.err = "nil"

\* The callers are numbered in the order of their calls.
InOrder(p) == \A q \in Procs : q < p => pc[q] # "idle"

\* A caller enters an operation.
Enter(p, c, to) ==
    /\ pc[p] = "idle"
    /\ InOrder(p)
    /\ call' = [call EXCEPT ![p] = c]
    /\ pc' = [pc EXCEPT ![p] = to]
    /\ UNCHANGED err

\* A call in progress returns e.
Return(p, e) ==
    /\ pc' = [pc EXCEPT ![p] = "done"]
    /\ err' = [err EXCEPT ![p] = e]
    /\ UNCHANGED call

\* A caller enters an operation that returns e at once.
EnterReturn(p, c, e) ==
    /\ pc[p] = "idle"
    /\ InOrder(p)
    /\ call' = [call EXCEPT ![p] = c]
    /\ pc' = [pc EXCEPT ![p] = "done"]
    /\ err' = [err EXCEPT ![p] = e]

\* A call in progress moves on.
Goto(p, to) ==
    /\ pc' = [pc EXCEPT ![p] = to]
    /\ UNCHANGED << call, err >>

\* ---------------------------------------------------- getOrCreateMutex
\* A guard that never makes a caller wait.
GuardFreeAlways == TRUE

\* d.mutex.Lock() succeeds only on a free guard.
GuardFree == guard = NoProc

\* One table entry for every collection.
LockKeyShared(c) == ""

\* d.mutexes[collection]: the table is keyed by the collection name.
LockKey(c) == c

\* d.mutex.Lock(); m, ok := d.mutexes[collection]
GetMutexLock(p) ==
    /\ pc[p] = "gLock"
    /\ GuardFree
    /\ guard' = p
    /\ m' = [m EXCEPT ![p] = mutexes[LockKey(call[p].col)]]
    /\ Goto(p, "gRet")
    /\ UNCHANGED << mutexes, locks, disk, dest, todo, records, built, order >>

\* A getOrCreateMutex that returns with the guard still held.
GetMutexReturnKeepsGuard(p) ==
    /\ pc[p] = "gRet"
    /\ IF m[p] = NoLock
         THEN /\ locks' = Append(locks, NoProc)
              /\ m' = [m EXCEPT ![p] = Len(locks) + 1]
              /\ mutexes' = [mutexes EXCEPT ![LockKey(call[p].col)] = Len(locks) + 1]
         ELSE UNCHANGED << locks, m, mutexes >>
    /\ Goto(p, "mLock")
    /\ UNCHANGED << guard, disk, dest, todo, records, built, order >>

\* if !ok { m = &sync.Mutex{}; d.mutexes[collection] = m }; the deferred
\* d.mutex.Unlock(); return m
GetMutexReturn(p) ==
    /\ pc[p] = "gRet"
    /\ IF m[p] = NoLock
         THEN /\ locks' = Append(locks, NoProc)
              /\ m' = [m EXCEPT ![p] = Len(locks) + 1]
              /\ mutexes' = [mutexes EXCEPT ![LockKey(call[p].col)] = Len(locks) + 1]
         ELSE UNCHANGED << locks, m, mutexes >>
    /\ guard' = NoProc
    /\ Goto(p, "mLock")
    /\ UNCHANGED << disk, dest, todo, records, built, order >>

\* A lock that never makes a caller wait.
LockFreeAlways(l) == TRUE

\* mutex.Lock() succeeds only on a free lock.
LockFree(l) == locks[l] = NoProc

\* mutex.Lock() in Write and Delete
MutexLock(p) ==
    /\ pc[p] = "mLock"
    /\ LockFree(m[p])
    /\ locks' = [locks EXCEPT ![m[p]] = p]
    /\ order' = Append(order, p)
    /\ Goto(p, IF call[p].op = "Write" THEN "mkdir" ELSE "remove")
    /\ UNCHANGED << guard, mutexes, disk, local, built >>

\* An unlock that is skipped when the operation failed.
UnlockedOnSuccess(p) ==
    [l \in DOMAIN locks |->
        IF l = m[p] /\ err[p] = "nil" THEN NoProc ELSE locks[l]]

\* What the deferred mutex.Unlock() leaves of the lock objects.
Unlocked(p) == [l \in DOMAIN locks |-> IF l = m[p] THEN NoProc ELSE locks[l]]

\* A locked section ends with err set: the deferred mutex.Unlock() is next.
Fail(p, e) ==
    /\ pc' = [pc EXCEPT ![p] = "unlock"]
    /\ err' = [err EXCEPT ![p] = e]
    /\ UNCHANGED call

\* The deferred mutex.Unlock() of Write and Delete, and the return.
Unlock(p) ==
    /\ pc[p] = "unlock"
    /\ locks' = Unlocked(p)
    /\ Return(p, err[p])
    /\ UNCHANGED << guard, mutexes, disk, local, built, order >>

\* ---------------------------------------------------------------- Write
WriteCall(c, r, v) == [op |-> "Write", col |-> c, rid |-> r, val |-> v]

\* A check of the collection name alone.
InvalidCollection(c, r) == c = ""

\* if collection == "" || resource == "" { return error }
Invalid(c, r) == c = "" \/ r = ""

\* Write is called: the check of its arguments.
CallWrite(p, C, R, V) ==
    /\ pc[p] = "idle"
    /\ InOrder(p)
    /\ \E c \in C, r \in R, v \in V :
         IF Invalid(c, r)
           THEN EnterReturn(p, WriteCall(c, r, v), "ValidationError")
           ELSE Enter(p, WriteCall(c, r, v), "gLock")
    /\ UNCHANGED << store, disk, local, built, order >>

\* os.MkdirAll(dir, 0755): the directory is made with its missing parents,
\* unless a regular file stands at the root path; then
\* json.MarshalIndent(v, "", "\t")
WriteMkdirAll(p) ==
    /\ pc[p] = "mkdir"
    /\ IF rootFile
         THEN /\ Fail(p, "IOError")
              /\ UNCHANGED dirs
         ELSE /\ dirs' = dirs \cup {Root, DirOf(call[p].col)}
              /\ IF Encodable(call[p].val)
                   THEN Goto(p, "open")
                   ELSE Fail(p, "SerializationError")
    /\ UNCHANGED << store, files, local, built, order >>

\* os.WriteFile(fnlPath, b, 0644): the file is opened with
\* O_WRONLY|O_CREATE|O_TRUNC
WriteFileOpen(p) ==
    /\ pc[p] = "open"
    /\ files' = [files EXCEPT ![PathOf(call[p].col, call[p].rid)] = EmptyBytes]
    /\ Goto(p, "write")
    /\ UNCHANGED << store, dirs, local, built, order >>

\* os.WriteFile(fnlPath, b, 0644): the bytes are written and the file closed
WriteFileWrite(p) ==
    /\ pc[p] = "write"
    /\ files' = [files EXCEPT ![PathOf(call[p].col, call[p].rid)] =
                                  MarshalIndent(call[p].val)]
    /\ Fail(p, "nil")
    /\ UNCHANGED << store, dirs, local, built, order >>

\* --------------------------------------------------------------- Delete
DeleteCall(c, r) == [op |-> "Delete", col |-> c, rid |-> r, val |-> ZeroUser]

\* Delete is called: it computes the path and goes for the lock.
CallDelete(p, C, R) ==
    /\ pc[p] = "idle"
    /\ InOrder(p)
    /\ \E c \in C, r \in R : Enter(p, DeleteCall(c, r), "gLock")
    /\ UNCHANGED << store, disk, local, built, order >>

\* A removal that reports success and leaves the file.
DeleteRemoveKeepsFile(p) ==
    /\ pc[p] = "remove"
    /\ Fail(p, IF files[PathOf(call[p].col, call[p].rid)] = NoFile
                 THEN "NotFound" ELSE "nil")
    /\ UNCHANGED << store, disk, local, built, order >>

\* A removal that reports success when there is no file to remove.
DeleteRemoveIgnoresMissing(p) ==
    /\ pc[p] = "remove"
    /\ files' = [files EXCEPT ![PathOf(call[p].col, call[p].rid)] = NoFile]
    /\ Fail(p, "nil")
    /\ UNCHANGED << store, dirs, local, built, order >>

\* os.Remove(path)
DeleteRemove(p) ==
    /\ pc[p] = "remove"
    /\ LET path == PathOf(call[p].col, call[p].rid) IN
         IF files[path] = NoFile
           THEN /\ Fail(p, "NotFound")
                /\ UNCHANGED files
           ELSE /\ files' = [files EXCEPT ![path] = NoFile]
                /\ Fail(p, "nil")
    /\ UNCHANGED << store, dirs, local, built, order >>

\* ----------------------------------------------------------------- Read
ReadCall(c, r) == [op |-> "Read", col |-> c, rid |-> r, val |-> ZeroUser]

\* Read is called: os.Stat(path)
CallRead(p, C, R) ==
    /\ pc[p] = "idle"
    /\ InOrder(p)
    /\ \E c \in C, r \in R :
         IF files[PathOf(c, r)] = NoFile
           THEN EnterReturn(p, ReadCall(c, r), "NotFound")
           ELSE Enter(p, ReadCall(c, r), "readFile")
    /\ UNCHANGED << store, disk, local, built, order >>

\* A Read that drops the error of json.Unmarshal.
ReadFileIgnoresDecodeError(p) ==
    /\ pc[p] = "readFile"
    /\ LET b == files[PathOf(call[p].col, call[p].rid)] IN
         IF b = NoFile
           THEN /\ Return(p, "NotFound")
                /\ UNCHANGED dest
           ELSE IF ~WellFormed(b)
                  THEN /\ Return(p, "nil")
                       /\ UNCHANGED dest
                  ELSE /\ dest' = [dest EXCEPT ![p] = Unmarshal(b)]
                       /\ Return(p, "nil")
    /\ UNCHANGED << store, disk, m, todo, records, built, order >>

\* os.ReadFile(path), then json.Unmarshal(b, &v)
ReadFile(p) ==
    /\ pc[p] = "readFile"
    /\ LET b == files[PathOf(call[p].col, call[p].rid)] IN
         IF b = NoFile
           THEN /\ Return(p, "NotFound")
                /\ UNCHANGED dest
           ELSE IF ~WellFormed(b)
                  THEN /\ Return(p, "DeserializationError")
                       /\ UNCHANGED dest
                  ELSE /\ dest' = [dest EXCEPT ![p] = Unmarshal(b)]
                       /\ Return(p, "nil")
    /\ UNCHANGED << store, disk, m, todo, records, built, order >>

\* -------------------------------------------------------------- ReadAll
ReadAllCall(c) == [op |-> "ReadAll", col |-> c, rid |-> "", val |-> ZeroUser]

\* The names of the entries of directory d: its record files and, in the
\* root, the directories of the collections.
EntryNames(d) ==
    {FileName(r) : r \in {x \in Rids : files[<< d, x >>] # NoFile}}
        \cup (IF d = Root THEN dirs \ {Root} ELSE {})

RECURSIVE SortedByName(_)
SortedByName(S) ==
    IF S = {} THEN << >>
    ELSE LET n == CHOOSE x \in S : \A y \in S : Rank(x) <= Rank(y)
         IN  << n >> \o SortedByName(S \ {n})

\* A ReadAll that goes to os.ReadDir without the os.Stat before it.
CallReadAllNoStat(p, C) ==
    /\ pc[p] = "idle"
    /\ InOrder(p)
    /\ \E c \in C : Enter(p, ReadAllCall(c), "readDir")
    /\ UNCHANGED << store, disk, local, built, order >>

\* ReadAll is called: os.Stat(dir)
CallReadAll(p, C) ==
    /\ pc[p] = "idle"
    /\ InOrder(p)
    /\ \E c \in C :
         IF DirOf(c) \notin dirs
           THEN EnterReturn(p, ReadAllCall(c), "NotFound")
           ELSE Enter(p, ReadAllCall(c), "readDir")
    /\ UNCHANGED << store, disk, local, built, order >>

\* A ReadAll that lists the directory only while no caller holds the lock
\* of the collection.
ReadAllReadDirUnderLock(p) ==
    /\ pc[p] = "readDir"
    /\ \/ mutexes[call[p].col] = NoLock
       \/ locks[mutexes[call[p].col]] = NoProc
    /\ LET entries == SortedByName(EntryNames(DirOf(call[p].col))) IN
         /\ todo' = [todo EXCEPT ![p] = entries]
         /\ IF entries = << >> THEN Return(p, "nil") ELSE Goto(p, "readEntry")
    /\ UNCHANGED << store, disk, m, dest, records, built, order >>

\* files, _ := os.ReadDir(dir); var records [][]byte
ReadAllReadDir(p) ==
    /\ pc[p] = "readDir"
    /\ LET entries == SortedByName(EntryNames(DirOf(call[p].col))) IN
         /\ todo' = [todo EXCEPT ![p] = entries]
         /\ IF entries = << >> THEN Return(p, "nil") ELSE Goto(p, "readEntry")
    /\ UNCHANGED << store, disk, m, dest, records, built, order >>

\* A loop that keeps the payload read last instead of appending it.
ReadAllReadEntryKeepsLast(p) ==
    /\ pc[p] = "readEntry"
    /\ LET d == DirOf(call[p].col)
           n == Head(todo[p])
           r == CHOOSE x \in Rids : FileName(x) = n
       IN  IF n \in Dirs \/ files[<< d, r >>] = NoFile
             THEN /\ records' = [records EXCEPT ![p] = << >>]
                  /\ todo' = [todo EXCEPT ![p] = << >>]
                  /\ Return(p, IF n \in Dirs THEN "IOError" ELSE "NotFound")
             ELSE /\ records' = [records EXCEPT ![p] = << files[<< d, r >>] >>]
                  /\ todo' = [todo EXCEPT ![p] = Tail(@)]
                  /\ IF Tail(todo[p]) = << >>
                       THEN Return(p, "nil")
                       ELSE Goto(p, "readEntry")
    /\ UNCHANGED << store, disk, m, dest, built, order >>

\* One turn of the loop: os.ReadFile(filepath.Join(dir, file.Name()))
ReadAllReadEntry(p) ==
    /\ pc[p] = "readEntry"
    /\ LET d == DirOf(call[p].col)
           n == Head(todo[p])
           r == CHOOSE x \in Rids : FileName(x) = n
       IN  IF n \in Dirs
             THEN /\ records' = [records EXCEPT ![p] = << >>]
                  /\ todo' = [todo EXCEPT ![p] = << >>]
                  /\ Return(p, "IOError")
             ELSE IF files[<< d, r >>] = NoFile
               THEN /\ records' = [records EXCEPT ![p] = << >>]
                    /\ todo' = [todo EXCEPT ![p] = << >>]
                    /\ Return(p, "NotFound")
               ELSE /\ records' = [records EXCEPT ![p] =
                                      Append(@, files[<< d, r >>])]
                    /\ todo' = [todo EXCEPT ![p] = Tail(@)]
                    /\ IF Tail(todo[p]) = << >>
                         THEN Return(p, "nil")
                         ELSE Goto(p, "readEntry")
    /\ UNCHANGED << store, disk, m, dest, built, order >>

\* ------------------------------------------------ a failing filesystem
\* os.MkdirAll fails: nothing is created.
WriteMkdirAllFails(p) ==
    /\ pc[p] = "mkdir"
    /\ Fail(p, "IOError")
    /\ UNCHANGED << store, disk, local, built, order >>

\* os.WriteFile fails to open the file: nothing is created or truncated.
WriteFileOpenFails(p) ==
    /\ pc[p] = "open"
    /\ Fail(p, "IOError")
    /\ UNCHANGED << store, disk, local, built, order >>

\* os.WriteFile fails to write into the file it has truncated.
WriteFileWriteFails(p) ==
    /\ pc[p] = "write"
    /\ Fail(p, "IOError")
    /\ UNCHANGED << store, disk, local, built, order >>

\* os.Remove fails on a file that exists: the file stays.
DeleteRemoveFails(p) ==
    /\ pc[p] = "remove"
    /\ files[PathOf(call[p].col, call[p].rid)] # NoFile
    /\ Fail(p, "IOError")
    /\ UNCHANGED << store, disk, local, built, order >>

\* files, _ := os.ReadDir(dir) fails (a directory that cannot be listed):
\* the error is dropped, files is empty, the loop has nothing to do and
\* ReadAll returns records, nil with records still nil.
ReadAllReadDirFails(p) ==
    /\ pc[p] = "readDir"
    /\ todo' = [todo EXCEPT ![p] = << >>]
    /\ Return(p, "nil")
    /\ UNCHANGED << store, disk, m, dest, records, built, order >>

\* ------------------------------------------------- the specifications
\* The steps of getOrCreateMutex and of the locked sections.
Mutate(p) ==
    \/ GetMutexLock(p)
    \/ GetMutexReturn(p)
    \/ MutexLock(p)
    \/ WriteMkdirAll(p)
    \/ WriteFileOpen(p)
    \/ WriteFileWrite(p)
    \/ DeleteRemove(p)
    \/ Unlock(p)

\* The steps of Read and ReadAll.
Look(p) ==
    \/ ReadFile(p)
    \/ ReadAllReadDir(p)
    \/ ReadAllReadEntry(p)

\* The steps in which a call of the filesystem fails.
Faults(p) ==
    \/ WriteMkdirAllFails(p)
    \/ WriteFileOpenFails(p)
    \/ WriteFileWriteFails(p)
    \/ DeleteRemoveFails(p)

\* No call is in progress.
Quiet == \A q \in Procs : pc[q] \in {"idle", "done"}

\* The encodable values, and the names the concurrent callers use.
Encodables == {u \in Users : Encodable(u)}
KeyColls == {"users", "products"}
KeyRids == {"a", "b"}

\* Concurrent callers of Write and Delete.
NextMutators ==
    \E p \in Busy :
        \/ CallWrite(p, KeyColls, KeyRids, Encodables)
        \/ CallDelete(p, KeyColls, KeyRids)
        \/ Mutate(p)

SpecMutators == Init /\ [][NextMutators]_vars

\* Concurrent callers of Write and Delete of one record per collection.
NextFair ==
    \E p \in Busy :
        \/ CallWrite(p, KeyColls, {"a"}, {u \in Users : u.Age = "23"})
        \/ CallDelete(p, KeyColls, {"a"})
        \/ Mutate(p)

\* The callers are goroutines that the scheduler keeps running: a caller
\* inside a call that can take a step that is no Lock takes it eventually
\* (the calls of the filesystem return), and a caller waiting in Lock gets
\* the lock if it is free again and again (sync.Mutex hands a lock over to
\* a waiter that starves).
Fairness ==
    \A p \in Busy :
        /\ WF_vars(\/ GetMutexReturn(p)
                   \/ WriteMkdirAll(p)
                   \/ WriteFileOpen(p)
                   \/ WriteFileWrite(p)
                   \/ DeleteRemove(p)
                   \/ Unlock(p))
        /\ SF_vars(GetMutexLock(p) \/ MutexLock(p))

SpecFair == Init /\ [][NextFair]_vars /\ Fairness

\* Concurrent callers of Write and Delete of one record, under the two
\* spellings of the name of its collection.
Aliases == {"users", "./users"}

NextAliases ==
    \E p \in Busy :
        \/ CallWrite(p, Aliases, {"a"}, Encodables)
        \/ CallDelete(p, Aliases, {"a"})
        \/ Mutate(p)

SpecAliases == Init /\ [][NextAliases]_vars

\* Concurrent callers of Write alone, on the records of one collection.
NextWriters ==
    \E p \in Busy :
        \/ CallWrite(p, {"users"}, Rids \ {""}, Encodables)
        \/ GetMutexLock(p)
        \/ GetMutexReturn(p)
        \/ MutexLock(p)
        \/ WriteMkdirAll(p)
        \/ WriteFileOpen(p)
        \/ WriteFileWrite(p)
        \/ Unlock(p)

SpecWriters == Init /\ [][NextWriters]_vars

\* Concurrent callers of Write and Delete of one record per collection, on
\* a filesystem whose calls may fail, with a value that is not encodable.
NextFaults ==
    \E p \in Busy :
        \/ CallWrite(p, KeyColls, {"a"}, {u \in Users : u.Age # ""})
        \/ CallDelete(p, KeyColls, {"a"})
        \/ Mutate(p)
        \/ Faults(p)

SpecFaults == Init /\ [][NextFaults]_vars

\* Concurrent callers of the four operations on one record.
Next ==
    \E p \in Procs :
        \/ CallWrite(p, {"users"}, {"a"}, Encodables)
        \/ CallDelete(p, {"users"}, {"a"})
        \/ CallRead(p, {"users"}, {"a"})
        \/ CallReadAll(p, {"users"})
        \/ Mutate(p)
        \/ Look(p)

Spec == Init /\ [][Next]_vars

\* The same callers, with directories that os.ReadDir may fail to list.
NextListing ==
    \/ Next
    \/ \E p \in Procs : ReadAllReadDirFails(p)

SpecListing == Init /\ [][NextListing]_vars

\* New on each kind of root path, and then concurrent callers of Write and
\* Delete of one record on the Driver New returned without an error.
NextNew ==
    \/ New
    \/ NewMkdirAllFails
    \/ \E p \in Busy :
          \/ Built /\ CallWrite(p, {"users"}, {"a"}, Encodables)
          \/ Built /\ CallDelete(p, {"users"}, {"a"})
          \/ Mutate(p)

SpecNew == InitNew /\ [][NextNew]_vars

\* Callers of the four operations, one call after the other.
SeqColls == {"", "users"}
SeqRids == {"", "a", "b"}

NextSequential ==
    \E p \in Procs :
        \/ Quiet /\ CallWrite(p, SeqColls, SeqRids, Encodables)
        \/ Quiet /\ CallDelete(p, SeqColls, SeqRids)
        \/ Quiet /\ CallRead(p, SeqColls, SeqRids)
        \/ Quiet /\ CallReadAll(p, SeqColls)
        \/ Mutate(p)
        \/ Look(p)

SpecSequential == Init /\ [][NextSequential]_vars

\* ------------------------------------------------------------ the claims
\* The caller is between mutex.Lock() and the deferred mutex.Unlock().
InLocked(p) == pc[p] \in {"mkdir", "open", "write", "remove", "unlock"}

\* The caller is inside a call of Write or Delete that got past its checks.
Active(p) == pc[p] \in {"gLock", "gRet", "mLock"} \/ InLocked(p)

\* The file a call is about.
Target(p) == PathOf(call[p].col, call[p].rid)

\* C1: for each collection at most one caller is inside the locked section
\* of Write or Delete; in particular a Write and a Delete of one collection
\* are never inside their locked sections together.
C1_MutualExclusion ==
    \A p \in Procs, q \in Procs :
        (p # q /\ InLocked(p) /\ InLocked(q)) => call[p].col # call[q].col

\* A Write is inside its locked section while a Delete of the same
\* collection waits for the lock.
C1_Witness ==
    \E p \in Procs, q \in Procs :
        /\ InLocked(p) /\ call[p].op = "Write"
        /\ pc[q] = "mLock" /\ call[q].op = "Delete"
        /\ call[p].col = call[q].col
        /\ ~LockFree(m[q])

\* C2: all callers of getOrCreateMutex with one collection name get the same
\* lock object, the one the table maps the name to; the table changes only
\* in a step of the caller holding the guard; a mapping, once made, is never
\* replaced or removed.
C2_OneLockPerCollection ==
    [][ /\ \A c \in Colls : mutexes[c] # NoLock => mutexes'[c] = mutexes[c]
        /\ mutexes' # mutexes =>
             /\ guard # NoProc
             /\ pc[guard] = "gRet" /\ pc'[guard] = "mLock"
        /\ \A p \in Procs :
             (pc'[p] = "mLock" \/ InLocked(p)') =>
                 /\ m'[p] # NoLock
                 /\ m'[p] = mutexes'[call'[p].col]
        /\ \A p \in Procs, q \in Procs :
             ( /\ pc'[p] = "mLock" \/ InLocked(p)'
               /\ pc'[q] = "mLock" \/ InLocked(q)'
               /\ call'[p].col = call'[q].col ) => m'[p] = m'[q]
      ]_vars

\* Two callers of one collection are inside getOrCreateMutex and Write or
\* Delete together: one has its lock and the other, holding the guard, has
\* just found the same lock in the table.
C2_Witness ==
    \E p \in Procs, q \in Procs :
        /\ p # q
        /\ call[p].col = call[q].col
        /\ pc[p] = "mLock" \/ InLocked(p)
        /\ pc[q] = "gRet" /\ guard = q
        /\ m[p] = m[q] /\ m[p] # NoLock

\* C3: after N concurrent Writes to N distinct resource ids of one
\* collection have all returned, the collection holds N record files, each
\* with exactly the encoding of the value of the Write that targeted it.
C3_DistinctWritesKeepTheirContent ==
    LET W == {p \in Procs : pc[p] = "done"} IN
    ( /\ Quiet
      /\ \A p \in W : call[p].op = "Write" /\ call[p].col = "users"
      /\ \A p \in W, q \in W : p # q => call[p].rid # call[q].rid )
    => /\ \A p \in W : err[p] = "nil"
       /\ \A p \in W : files[Target(p)] = MarshalIndent(call[p].val)
       /\ Cardinality({f \in Paths : files[f] # NoFile}) = Cardinality(W)

\* Every concurrent caller has written its own record, with two different
\* values among them.
C3_Witness ==
    /\ \A p \in Busy : pc[p] = "done" /\ call[p].op = "Write"
    /\ \A p \in Busy, q \in Busy : p # q => call[p].rid # call[q].rid
    /\ \E p \in Busy, q \in Busy : call[p].val # call[q].val

\* C4: Write and Delete release the collection lock on every exit path: a
\* caller that has returned, with or without an error, holds no lock; a
\* lock is held only by a caller inside its locked section; so a Write or
\* Delete that waits for a lock while no other call is in progress finds
\* the lock free.
C4_LocksReleasedOnEveryExit ==
    /\ \A p \in Procs :
         pc[p] = "done" => \A l \in DOMAIN locks : locks[l] # p
    /\ \A l \in DOMAIN locks :
         locks[l] # NoProc => InLocked(locks[l]) /\ m[locks[l]] = l
    /\ \A p \in Procs :
         (pc[p] = "mLock" /\ \A q \in Procs \ {p} : pc[q] \in {"idle", "done"})
             => LockFree(m[p])

\* A call has failed in its locked section and a later call on the same
\* collection is inside its own locked section.
C4_Witness ==
    \E p \in Procs, q \in Procs :
        /\ pc[p] = "done"
        /\ err[p] \in {"IOError", "SerializationError", "NotFound"}
        /\ InLocked(q)
        /\ call[q].col = call[p].col
        /\ locks[m[p]] = q

\* The caller q waits for a lock that the caller p holds.
WaitsFor(q, p) ==
    \/ pc[q] = "gLock" /\ ~GuardFree /\ guard = p
    \/ pc[q] = "mLock" /\ ~LockFree(m[q]) /\ locks[m[q]] = p

\* C5 as stated: a Write or Delete on one collection never waits for a
\* caller of Write or Delete on another collection.
C5_NeverWaitsForAnotherCollection ==
    \A p \in Procs, q \in Procs :
        (Active(p) /\ Active(q) /\ call[p].col # call[q].col)
            => ~WaitsFor(q, p)

\* C5 as amended: a Write or Delete on one collection never waits for the
\* collection lock of another collection; the one lock it can wait for
\* while a caller of another collection holds it is the guard, and that
\* caller is then inside getOrCreateMutex, not in its file operations.
C5_WaitsOnlyForTheGuard ==
    \A p \in Procs, q \in Procs :
        (Active(p) /\ Active(q) /\ call[p].col # call[q].col)
            => /\ ~(pc[q] = "mLock" /\ locks[m[q]] = p)
               /\ m[p] # NoLock /\ m[q] # NoLock => m[p] # m[q]
               /\ WaitsFor(q, p) => pc[q] = "gLock" /\ pc[p] = "gRet"

\* Callers of two different collections are inside their locked sections
\* at the same time.
C5_Witness ==
    \E p \in Procs, q \in Procs :
        /\ InLocked(p) /\ InLocked(q)
        /\ call[p].col # call[q].col

\* ------------------------------------------- the claims on sequences
\* Under SpecSequential the callers are numbered in the order of their
\* calls and a call starts only when the calls before it have returned.

\* The call writes or deletes the file f.
MutatorOf(p, f) == call[p].op \in {"Write", "Delete"} /\ Target(p) = f

\* The calls before q that changed the file f.
ChangesBefore(f, q) ==
    {p \in Procs : p < q /\ MutatorOf(p, f) /\ err[p] = "nil"}

Last(S) == CHOOSE x \in S : \A y \in S : y <= x

\* Before the call q the file f held a record: the last call that changed
\* it was a Write.
LiveBefore(f, q) ==
    /\ ChangesBefore(f, q) # {}
    /\ call[Last(ChangesBefore(f, q))].op = "Write"

LastValue(f, q) == call[Last(ChangesBefore(f, q))].val

\* p is a Write of an encodable value under non-empty names and q is a later
\* call on the same record with no Write or Delete of it in between.
WriteThen(p, q, op) ==
    /\ p < q
    /\ call[p].op = "Write"
    /\ ~Invalid(call[p].col, call[p].rid)
    /\ Encodable(call[p].val)
    /\ call[q].op = op
    /\ Target(q) = Target(p)
    /\ pc[q] = "done"
    /\ \A r \in Procs : (p < r /\ r < q) => ~MutatorOf(r, Target(p))

\* What a User reads back as: an empty json.Number comes back as "0".
ReadBack(v) == [Name |-> v.Name, Age |-> IF v.Age = "" THEN "0" ELSE v.Age]

\* C6 as stated: Write(c, r, v) of an encodable v under non-empty names
\* followed by Read(c, r, dest) succeeds and leaves dest equal to v.
C6_RoundTrip ==
    \A p \in Procs, q \in Procs :
        WriteThen(p, q, "Read") =>
            /\ err[p] = "nil"
            /\ err[q] = "nil"
            /\ dest[q] = call[p].val

\* C6 as amended: the Write and the Read succeed and dest equals v, except
\* that a json.Number of v that is empty is read back as "0".
C6_RoundTripUpToNumbers ==
    \A p \in Procs, q \in Procs :
        WriteThen(p, q, "Read") =>
            /\ err[p] = "nil"
            /\ err[q] = "nil"
            /\ dest[q] = ReadBack(call[p].val)
            /\ call[p].val.Age # "" => dest[q] = call[p].val

\* A value with an empty json.Number was written and read back.
C6_Witness ==
    \E p \in Procs, q \in Procs :
        /\ WriteThen(p, q, "Read")
        /\ call[p].val.Age = ""
        /\ err[q] = "nil"
        /\ dest[q].Age = "0"

\* The number of payloads of ReadAll q that are the bytes b.
Payloads(q, b) ==
    Cardinality({i \in DOMAIN records[q] : records[q][i] = b})

\* The records of collection c that were live before the call q.
LiveRids(c, q) == {r \in Rids : LiveBefore(PathOf(c, r), q)}

\* q is a ReadAll of a named collection that has returned after at least
\* one Write or Delete.
ReadAllAfter(q) ==
    /\ pc[q] = "done"
    /\ call[q].op = "ReadAll"
    /\ call[q].col # ""
    /\ q > 1
    /\ \A p \in Procs : p < q => call[p].op \in {"Write", "Delete"}

DirMadeBefore(c, q) ==
    \E p \in Procs :
        /\ p < q
        /\ call[p].op = "Write" /\ call[p].col = c
        /\ ~Invalid(call[p].col, call[p].rid)

C7_WitnessNoDirectory ==
    \E q \in Procs :
        /\ ReadAllAfter(q)
        /\ ~DirMadeBefore(call[q].col, q)
        /\ err[q] = "NotFound"

\* p is a Write of a record, q the Delete of it that follows, and no Write
\* of the record has been called since.
WriteThenDelete(p, q) ==
    /\ WriteThen(p, q, "Delete")
    /\ \A r \in Procs :
         (q < r /\ pc[r] # "idle") =>
             ~(call[r].op = "Write" /\ Target(r) = Target(p))

\* C8: after Write(c, r, v) and then Delete(c, r), with no other Write of
\* the record, the Delete has succeeded, the file is gone and a Read of the
\* record returns not-found; the removal changes no other file and no
\* directory.
C8_DeleteRemoves ==
    [][ /\ \A p \in Procs, q \in Procs :
             WriteThenDelete(p, q)' =>
                 /\ err'[q] = "nil"
                 /\ files'[Target(q)'] = NoFile
                 /\ \A r \in Procs :
                      (q < r /\ pc'[r] = "done" /\ call'[r].op = "Read"
                             /\ Target(r)' = Target(q)')
                          => err'[r] = "NotFound"
        /\ \A q \in Procs :
             (pc[q] = "remove" /\ pc'[q] # "remove") =>
                 /\ dirs' = dirs
                 /\ \A f \in Paths : f # Target(q) => files'[f] = files[f]
      ]_vars

\* A record was written, then deleted, then read: the Read has returned.
C8_Witness ==
    \E p \in Procs, q \in Procs, r \in Procs :
        /\ WriteThenDelete(p, q)
        /\ q < r /\ pc[r] = "done" /\ call[r].op = "Read"
        /\ Target(r) = Target(q)

\* The caller p has just been called with Write and an empty name.
InvalidWriteCalled(p) ==
    /\ pc[p] = "idle" /\ pc'[p] # "idle"
    /\ call'[p].op = "Write"
    /\ call'[p].col = "" \/ call'[p].rid = ""

\* C9: Write with an empty collection name or an empty resource id returns
\* the validation error at once: no directory or file is made or changed,
\* no lock is taken and the lock table stays as it is.
C9_WriteValidationGate ==
    [][ \A p \in Procs :
          InvalidWriteCalled(p) =>
              /\ pc'[p] = "done"
              /\ err'[p] = "ValidationError"
              /\ dirs' = dirs /\ files' = files
              /\ guard' = guard /\ locks' = locks /\ mutexes' = mutexes
      ]_vars

\* A Write with an empty resource id has returned the validation error in
\* a store that holds a record and a lock already.
C9_Witness ==
    \E p \in Procs :
        /\ call[p].op = "Write" /\ call[p].col # "" /\ call[p].rid = ""
        /\ pc[p] = "done" /\ err[p] = "ValidationError"
        /\ \E f \in Paths : files[f] # NoFile
        /\ mutexes[call[p].col] # NoLock

\* C10: Delete, like Write, rejects an empty collection name or resource
\* id before any access to the filesystem: such a Delete never gets to
\* os.Remove, and it returns an error.
C10_DeleteValidationGate ==
    \A p \in Procs :
        (call[p].op = "Delete" /\ (call[p].col = "" \/ call[p].rid = ""))
            => /\ pc[p] # "remove"
               /\ pc[p] = "done" => err[p] = "ValidationError"

\* C11: a Delete of a record whose file does not exist (never written,
\* deleted already, or in a collection with no directory) changes no file
\* and no directory in any of its steps, os.Remove included, and the
\* not-found error of os.Remove is the error the Delete returns.
C11_DeleteOfMissingFile ==
    [][ \A q \in Procs :
          /\ ( /\ call'[q].op = "Delete"
               /\ pc[q] \in {"idle", "gLock", "gRet", "mLock", "remove"}
               /\ files[Target(q)'] = NoFile )
             => /\ files' = files
                /\ dirs' = dirs
                /\ pc[q] = "remove" => pc'[q] = "unlock" /\ err'[q] = "NotFound"
          /\ (call[q].op = "Delete" /\ pc[q] = "unlock")
             => /\ files' = files
                /\ dirs' = dirs
                /\ pc'[q] = "done" /\ err'[q] = err[q]
      ]_vars

\* A record was written and deleted, and a second Delete of it has
\* returned not-found, leaving the directory of the collection in place.
C11_Witness ==
    \E p \in Procs, q \in Procs, r \in Procs :
        /\ WriteThenDelete(p, q) /\ err[q] = "nil"
        /\ q < r /\ call[r].op = "Delete" /\ Target(r) = Target(q)
        /\ pc[r] = "done" /\ err[r] = "NotFound"
        /\ DirOf(call[r].col) \in dirs

\* The step leaves the lock table, the locks, the directories and the files
\* as they are.
StoreAndDiskUnchanged ==
    /\ guard' = guard /\ mutexes' = mutexes /\ locks' = locks
    /\ dirs' = dirs /\ files' = files

\* C12: ReadAll of a collection whose directory does not exist returns
\* not-found and no payload; Read of a record whose file does not exist,
\* at os.Stat or (removed since) at os.ReadFile, returns not-found and
\* leaves the destination alone; neither changes the filesystem, the lock
\* table or a lock.
C12_NotFoundOnMissing ==
    [][ \A p \in Procs :
          /\ ( /\ pc[p] = "idle" /\ call'[p].op = "ReadAll"
               /\ DirOf(call'[p].col) \notin dirs )
             => /\ pc'[p] = "done" /\ err'[p] = "NotFound"
                /\ records'[p] = << >>
                /\ StoreAndDiskUnchanged
          /\ ( /\ call'[p].op = "Read"
               /\ pc[p] \in {"idle", "readFile"} /\ pc'[p] # pc[p]
               /\ files[Target(p)'] = NoFile )
             => /\ pc'[p] = "done" /\ err'[p] = "NotFound"
                /\ dest'[p] = dest[p]
                /\ StoreAndDiskUnchanged
      ]_vars

\* With a lock registered for the collection, a ReadAll of the collection
\* and a Read of one of its records have both returned not-found.
C12_Witness ==
    \E p \in Procs, q \in Procs :
        /\ call[p].op = "ReadAll" /\ pc[p] = "done" /\ err[p] = "NotFound"
        /\ call[q].op = "Read" /\ pc[q] = "done" /\ err[q] = "NotFound"
        /\ call[p].col = call[q].col
        /\ mutexes[call[p].col] # NoLock

\* C13: New returns without error exactly when, on its return, the root
\* path is a directory; otherwise the error it returns is an I/O error.
C13_NewEnsuresRoot ==
    db # NotBuilt =>
        /\ db.err = "nil" <=> Root \in dirs
        /\ db.err # "nil" => db.err = "IOError"

\* C14: a caller holds the guard only between the Lock and the Unlock of
\* getOrCreateMutex: never while it waits for or holds a collection lock,
\* and never in a call of the filesystem.  Every step that changes a
\* directory or a file is the step of a caller that holds the lock of its
\* collection and not the guard.
C14_GuardOnlyForLookup ==
    [][ /\ \A p \in Procs :
             /\ guard' = p => pc'[p] = "gRet"
             /\ (pc'[p] = "mLock" \/ InLocked(p)') => guard' # p
        /\ (dirs' # dirs \/ files' # files) =>
             \E p \in Procs :
                 /\ pc[p] \in {"mkdir", "open", "write", "remove"}
                 /\ pc'[p] # pc[p]
                 /\ m[p] # NoLock
                 /\ m[p] = mutexes[call[p].col]
                 /\ locks[m[p]] = p
                 /\ guard # p
      ]_vars

\* A Write is about to write into its file while a caller of another
\* collection holds the guard.
C14_Witness ==
    \E p \in Procs, q \in Procs :
        /\ pc[p] = "write"
        /\ guard = q /\ pc[q] = "gRet"
        /\ call[q].col # call[p].col

\* --------------------------------------- the claims on concurrent readers
\* The Write w targets the record the Read q reads.
WritesRecordOf(w, q) ==
    /\ call[w].op = "Write"
    /\ call[w].col = call[q].col /\ call[w].rid = call[q].rid

\* The Read q is about to read a record that exists: a Write of it has
\* returned and no Delete has been called.
ReadsExisting(q) ==
    /\ call[q].op = "Read" /\ pc[q] = "readFile"
    /\ \E w \in Procs : WritesRecordOf(w, q) /\ pc[w] = "done" /\ err[w] = "nil"
    /\ \A d \in Procs : call[d].op # "Delete"

\* The places in the history of lock acquisitions of the Writes of the
\* record of q that have written their bytes.
WrittenAt(q) ==
    {i \in DOMAIN order : /\ WritesRecordOf(order[i], q)
                          /\ pc[order[i]] \in {"unlock", "done"}}

\* The value of the Write that wrote the record of q last.
LastWritten(q) == call[order[Last(WrittenAt(q))]].val

\* C15 as stated: a Read of an existing record that runs concurrently with
\* a Write of it returns not-found or the complete old or new content,
\* never a deserialization error.
C15_ReadSeesOldOrNew ==
    [][ \A q \in Procs :
          (ReadsExisting(q) /\ pc'[q] = "done") =>
              /\ err'[q] \in {"nil", "NotFound"}
              /\ err'[q] = "nil" =>
                    \E w \in Procs :
                        /\ WritesRecordOf(w, q)
                        /\ dest'[q] = Unmarshal(MarshalIndent(call[w].val))
      ]_vars

\* C15 as amended: such a Read returns success or a deserialization error.
\* It returns the error exactly when it reads the file between the two
\* steps of the os.WriteFile of a Write in progress, truncation and
\* writing; otherwise it yields the complete content of the Write that
\* wrote the record last: the old one, or the new one once it is written.
C15_ReadSeesOldNewOrTruncated ==
    [][ \A q \in Procs :
          (ReadsExisting(q) /\ pc'[q] = "done") =>
              LET torn == \E w \in Procs : WritesRecordOf(w, q) /\ pc[w] = "write"
              IN  /\ err'[q] \in {"nil", "DeserializationError"}
                  /\ err'[q] = "DeserializationError" <=> torn
                  /\ err'[q] = "DeserializationError" => dest'[q] = dest[q]
                  /\ err'[q] = "nil" =>
                        dest'[q] = Unmarshal(MarshalIndent(LastWritten(q)))
      ]_vars

\* A record was written, and a Read of it has returned a deserialization
\* error while a second Write of it, of another value, stands between
\* truncating the file and writing it.
C15_Witness ==
    \E w0 \in Procs, w \in Procs, q \in Procs :
        /\ call[q].op = "Read" /\ pc[q] = "done"
        /\ err[q] = "DeserializationError"
        /\ WritesRecordOf(w0, q) /\ pc[w0] = "done" /\ err[w0] = "nil"
        /\ WritesRecordOf(w, q) /\ pc[w] = "write"
        /\ call[w].val # call[w0].val
        /\ w0 < w /\ w < q

\* The caller is inside a Read or a ReadAll.
Looking(p) == pc[p] \in {"readFile", "readDir", "readEntry"}

\* C17: Read and ReadAll never wait for the guard or for a lock: whatever
\* locks are held, a Read or ReadAll in progress can take its next step;
\* and no step of a Read or ReadAll changes the lock table, a lock, a file
\* or a directory, nor gives the caller a lock.
C17_ReadersTakeNoLock ==
    /\ [](\A p \in Procs :
            /\ pc[p] = "readFile" => ENABLED ReadFile(p)
            /\ pc[p] = "readDir" => ENABLED ReadAllReadDir(p)
            /\ pc[p] = "readEntry" => ENABLED ReadAllReadEntry(p))
    /\ [][ \A p \in Procs :
             (call'[p].op \in {"Read", "ReadAll"} /\ pc'[p] # pc[p]) =>
                 /\ StoreAndDiskUnchanged
                 /\ order' = order
                 /\ m'[p] = NoLock
                 /\ pc'[p] = "done" \/ Looking(p)'
      ]_vars

\* A ReadAll of a collection has run to its end while a Write held the
\* lock of the collection: it has returned the file as the Write, still
\* in its locked section, has truncated it.
C17_Witness ==
    \E p \in Procs, q \in Procs :
        /\ call[p].op = "ReadAll" /\ pc[p] = "done" /\ err[p] = "nil"
        /\ records[p] = << EmptyBytes >>
        /\ pc[q] = "write" /\ call[q].col = call[p].col
        /\ locks[m[q]] = q

\* The entry ReadAll p reads next cannot be read: it is a directory, or its
\* file has been removed since the listing.
Unreadable(p) ==
    \/ Head(todo[p]) \in Dirs
    \/ \A r \in Rids :
         FileName(r) = Head(todo[p]) => files[<< DirOf(call[p].col), r >>] = NoFile

\* C18: ReadAll never silently skips entries.  It returns success straight
\* from the listing only on a directory with no entry, and otherwise goes
\* on to read every entry; when an entry cannot be read it returns an
\* error and no payload; every other turn of the loop adds one payload;
\* so a ReadAll that succeeds returns one payload per entry.
C18_ReadAllNeverSkips ==
    [][ \A p \in Procs :
          /\ (pc[p] = "readDir" /\ pc'[p] # pc[p]) =>
               LET entries == SortedByName(EntryNames(DirOf(call[p].col))) IN
               IF entries = << >>
                 THEN pc'[p] = "done" /\ records'[p] = << >>
                 ELSE pc'[p] = "readEntry" /\ todo'[p] = entries
          /\ (pc[p] = "readEntry" /\ (pc'[p] # pc[p] \/ todo'[p] # todo[p])) =>
               IF Unreadable(p)
                 THEN /\ pc'[p] = "done"
                      /\ err'[p] \in {"NotFound", "IOError"}
                      /\ records'[p] = << >>
                 ELSE /\ Len(records'[p]) = Len(records[p]) + 1
                      /\ todo'[p] = Tail(todo[p])
                      /\ pc'[p] = "done" <=> todo'[p] = << >>
                      /\ pc'[p] = "done" => err'[p] = "nil"
      ]_vars

\* The caller waits in a Lock that another caller holds.
Blocked(p) ==
    \/ pc[p] = "gLock" /\ ~GuardFree
    \/ pc[p] = "mLock" /\ ~LockFree(m[p])

\* C19: in no state are all the callers inside Write or Delete blocked on
\* a lock; and with fair scheduling and fair locks every Write and Delete
\* that has been called returns.
C19_NoDeadlockAndTermination ==
    /\ []((\E p \in Procs : Active(p)) =>
              \E p \in Procs : Active(p) /\ ~Blocked(p))
    /\ \A p \in Procs : (pc[p] # "idle") ~> (pc[p] = "done")

\* A caller waits for the lock of a collection that another caller holds
\* after a Delete that returned an error.
C19_Witness ==
    \E p \in Procs, q \in Procs :
        /\ pc[p] = "mLock" /\ Blocked(p)
        /\ locks[m[p]] = q /\ InLocked(q)
        /\ err[q] = "NotFound"

\* C20: two callers of Write or Delete that are inside their locked
\* sections at the same time never target the same file, whatever the
\* spelling of the collection names that lead to it.
C20_OneWriterPerFile ==
    \A p \in Procs, q \in Procs :
        (p # q /\ InLocked(p) /\ InLocked(q)) => Target(p) # Target(q)

\* ------------------------------------------ the claim on the total order
\* A store with no record, no collection and no call returned.
Fresh ==
    [files |-> [f \in Paths |-> NoFile],
     dirs  |-> {Root},
     errs  |-> [p \in Procs |-> Pending]]

\* The call of p executed alone on the store fs.
SerialStep(fs, p) ==
    LET c == call[p]
        f == << DirOf(c.col), c.rid >>
    IN  IF c.op = "Write"
          THEN IF Encodable(c.val)
                 THEN [files |-> [fs.files EXCEPT ![f] = MarshalIndent(c.val)],
                       dirs  |-> fs.dirs \cup {DirOf(c.col)},
                       errs  |-> [fs.errs EXCEPT ![p] = "nil"]]
                 ELSE [files |-> fs.files,
                       dirs  |-> fs.dirs \cup {DirOf(c.col)},
                       errs  |-> [fs.errs EXCEPT ![p] = "SerializationError"]]
          ELSE IF fs.files[f] = NoFile
                 THEN [fs EXCEPT !.errs[p] = "NotFound"]
                 ELSE [files |-> [fs.files EXCEPT ![f] = NoFile],
                       dirs  |-> fs.dirs,
                       errs  |-> [fs.errs EXCEPT ![p] = "nil"]]

\* The calls of the callers in seq executed one at a time, in that order.
RECURSIVE Serial(_, _)
Serial(seq, fs) ==
    IF seq = << >> THEN fs ELSE Serial(Tail(seq), SerialStep(fs, Head(seq)))

\* The callers of collection c in the order they acquired its lock.
RECURSIVE LockOrder(_, _)
LockOrder(seq, c) ==
    IF seq = << >> THEN << >>
    ELSE (IF call[Head(seq)].col = c THEN << Head(seq) >> ELSE << >>)
             \o LockOrder(Tail(seq), c)

\* C16: whenever no Write or Delete is inside its locked section, the
\* records and the directory of every collection, and the result of every
\* Write and Delete of the collection that has returned, are those of
\* executing these calls one at a time in the order in which they acquired
\* the lock of the collection.
C16_SerialInLockOrder ==
    (\A p \in Procs : ~InLocked(p)) =>
        \A c \in KeyColls :
            LET s == Serial(LockOrder(order, c), Fresh) IN
            /\ \A r \in Rids : files[<< DirOf(c), r >>] = s.files[<< DirOf(c), r >>]
            /\ DirOf(c) \in dirs <=> DirOf(c) \in s.dirs
            /\ \A p \in Procs :
                 (call[p].col = c /\ pc[p] = "done") => err[p] = s.errs[p]

\* A Write and a Delete of one record have both returned, the Delete,
\* called second, having acquired the lock first: it found no file and the
\* record is there.
C16_Witness ==
    \E p \in Procs, q \in Procs :
        /\ p < q
        /\ call[p].op = "Write" /\ call[q].op = "Delete"
        /\ Target(p) = Target(q)
        /\ pc[p] = "done" /\ pc[q] = "done"
        /\ order = << q, p >>
        /\ err[q] = "NotFound" /\ err[p] = "nil"
        /\ files[Target(p)] # NoFile

====
